---------------------------- MODULE Spec2Model ----------------------------
(***************************************************************************)
(* Model of MindlessGen's main driver, src/src/mindlessgen/generator/      *)
(* main.py: the block planner (setup_blocks), the outer scheduler          *)
(* (generator), the per-molecule inner scheduler                           *)
(* (single_molecule_generator), the attempt state machine                  *)
(* (single_molecule_step) and the progress printer (printer_thread).      *)
(*                                                                         *)
(* ResourceMonitor, setup_managers and MINCORES_PLACEHOLDER are imported   *)
(* from mindlessgen.prog, of which only __init__.py is among the sources:  *)
(* the core budget is modelled from section 4.1 of the specification       *)
(* (CanOccupy, OccupyCores, ReleaseCores), the minimum core count is an    *)
(* input, and the executors run every submitted task and attempt           *)
(* concurrently (section 5), without a limit on their workers.             *)
(*                                                                         *)
(* Every access of an attempt to its task's stop_event is a step of its    *)
(* own.                                                                    *)
(***************************************************************************)
EXTENDS Integers, Sequences, FiniteSets, TLC

\* ------------------------------------------------------------------ bounds
\* Scheduling runs (Spec, FairSpec).
MaxCores == 2
MaxMolecules == 2
MaxCycles == 2
MaxMinCores == 2
\* Attempts of one run, all molecules together.
MaxAttempts == 2
\* Planning runs (PlanSpec).
PlanMaxCores == 8
PlanMaxMolecules == 7
PlanMaxMinCores == 4

VARIABLES
    \* configuration (config.general.*, config.refine.debug, ...)
    num_cores,          \* min(mp.cpu_count(), config.general.parallel)
    num_molecules,      \* config.general.num_molecules
    mincores,           \* MINCORES_PLACEHOLDER
    max_cycles,         \* config.general.max_cycles
    postprocess,        \* config.general.postprocess
    refine_debug,       \* config.refine.debug
    postprocess_debug,  \* config.postprocess.debug
    verbosity,          \* config.general.verbosity
    \* generator / setup_blocks
    gpc,                \* position of generator
    blocks,             \* list[Block]
    molecules_left,     \* setup_blocks local
    p,                  \* setup_blocks local: parallel blocks of the last step
    backup_verbosity,
    tasks,              \* futures of generator: the core count each was given
    results,            \* generator's results list
    yielded,            \* tasks as_completed has handed to generator
    exitcode,
    optimized_molecules,
    \* outer ResourceMonitor
    free_cores,
    \* single_molecule_generator, one per task
    tpc,                \* position of each task
    stop_event,         \* each task's manager.Event()
    apc,                \* position of each attempt (single_molecule_step)
    iresults,           \* each task's results list
    tresult,            \* what each task returned
    cycles_needed,
    \* progress channel
    msg_queue,
    printer_pc,
    printer_stop,       \* generator's stop_event for the printer
    printed             \* the message the printer printed last

cfgvars == <<num_cores, num_molecules, mincores, max_cycles, postprocess,
             refine_debug, postprocess_debug>>
planvars == <<blocks, molecules_left, p>>
genvars == <<backup_verbosity, tasks, results, yielded, exitcode,
             optimized_molecules>>
taskvars == <<tpc, stop_event, apc, iresults, tresult, cycles_needed>>
chanvars == <<msg_queue, printer_pc, printer_stop, printed>>
vars == <<cfgvars, verbosity, gpc, planvars, genvars, free_cores, taskvars,
          chanvars>>

\* ----------------------------------------------------------------- values
\* Python's None, as a result of a task or an attempt.
None == <<>>
\* The molecule attempt c of task t produced.
Molecule(t, c) == <<t, c>>
\* backup_verbosity: int | None = None
NoBackup == 0

Max(S) == CHOOSE x \in S : \A y \in S : y <= x

Block(n, c) == [num_molecules |-> n, ncores |-> c]

RECURSIVE SumMolecules(_)
SumMolecules(bs) ==
    IF bs = <<>> THEN 0 ELSE Head(bs).num_molecules + SumMolecules(Tail(bs))

\* p copies of block b appended to bs: for _ in range(p): blocks.append(b)
RECURSIVE AppendTimes(_, _, _)
AppendTimes(bs, b, k) ==
    IF k <= 0 THEN bs ELSE AppendTimes(Append(bs, b), b, k - 1)

\* list.sort(key=lambda x: x.ncores): stable, ascending. Insert b behind
\* every element whose key is not larger.
RECURSIVE InsertByNcores_Desc(_, _)
InsertByNcores_Desc(sorted, b) ==
    IF sorted = <<>> THEN <<b>>
    ELSE IF Head(sorted).ncores >= b.ncores
         THEN <<Head(sorted)>> \o InsertByNcores_Desc(Tail(sorted), b)
         ELSE <<b>> \o sorted

RECURSIVE InsertByNcores(_, _)
InsertByNcores(sorted, b) ==
    IF sorted = <<>> THEN <<b>>
    ELSE IF Head(sorted).ncores <= b.ncores
         THEN <<Head(sorted)>> \o InsertByNcores(Tail(sorted), b)
         ELSE <<b>> \o sorted

RECURSIVE SortByNcores(_)
SortByNcores(bs) ==
    IF bs = <<>> THEN <<>>
    ELSE InsertByNcores(SortByNcores(SubSeq(bs, 1, Len(bs) - 1)), bs[Len(bs)])

\* ----------------------------------------------------------- setup_blocks
maxcores == num_cores
maxprocs == Max({1, num_cores \div mincores})
minprocs == Max({1, num_cores \div maxcores})

\* molecules_per_block = molecules_left // p
MoleculesPerBlock_Ceil(left, k) == (left + k - 1) \div k
MoleculesPerBlock(left, k) == left \div k

\* Block(molecules_per_block, ncores // p): the cores of one block
BlockCores_All(k) == num_cores
BlockCores_Min(k) == mincores
BlockCores_Times(k) == num_cores * k
BlockCores(k) == num_cores \div k

\* [j for j in range(minprocs, maxprocs) if ncores % j == 0 and j <= molecules_left]
Candidates_FromTwo(left) ==
    {j \in 2 .. (maxprocs - 1) : num_cores % j = 0 /\ j <= left}
Candidates(left) ==
    {j \in minprocs .. (maxprocs - 1) : num_cores % j = 0 /\ j <= left}

\* Lines 424-440: the first round, maxprocs parallel blocks.
SetupBlocksFirst ==
    /\ gpc = "setup_blocks"
    /\ IF num_molecules >= maxprocs
       THEN LET mpb == MoleculesPerBlock(num_molecules, maxprocs) IN
            /\ p' = maxprocs
            /\ blocks' = AppendTimes(<<>>, Block(mpb, BlockCores(maxprocs)), maxprocs)
            /\ molecules_left' = num_molecules - mpb * maxprocs
       ELSE /\ p' = 0
            /\ blocks' = <<>>
            /\ molecules_left' = num_molecules
    /\ gpc' = "while"
    /\ UNCHANGED <<cfgvars, verbosity, genvars, free_cores, taskvars, chanvars>>

\* Lines 444-455: one iteration of the remainder loop. max() of an empty
\* list raises ValueError.
SetupBlocksLoop ==
    /\ gpc = "while"
    /\ molecules_left >= minprocs
    /\ IF Candidates(molecules_left) = {}
       THEN /\ gpc' = "ValueError"
            /\ UNCHANGED planvars
       ELSE LET k == Max(Candidates(molecules_left))
                mpb == MoleculesPerBlock(molecules_left, k) IN
            /\ p' = k
            /\ blocks' = AppendTimes(blocks, Block(mpb, BlockCores(k)), k)
            /\ molecules_left' = molecules_left - mpb * k
            /\ gpc' = "while"
    /\ UNCHANGED <<cfgvars, verbosity, genvars, free_cores, taskvars, chanvars>>

\* Line 458: if molecules_left > 0
LastBlockNeeded_Always(left) == TRUE
LastBlockNeeded(left) == left > 0

\* Lines 457-462: the loop's exit, the last block and the return.
SetupBlocksReturn ==
    /\ gpc = "while"
    /\ molecules_left < minprocs
    /\ IF LastBlockNeeded(molecules_left)
       THEN /\ blocks' = Append(blocks, Block(molecules_left, maxcores))
            /\ molecules_left' = 0
       ELSE UNCHANGED <<blocks, molecules_left>>
    /\ gpc' = "sort"
    /\ UNCHANGED <<cfgvars, verbosity, p, genvars, free_cores, taskvars, chanvars>>

\* -------------------------------------------------------------- generator
\* Lines 102-119: sort the blocks, silence the workers when there are
\* several blocks, open the managers (resources starts with num_cores free
\* cores) and start the printer thread.
GeneratorSetup ==
    /\ gpc = "sort"
    /\ blocks' = SortByNcores(blocks)
    /\ IF Len(blocks) > 1 /\ verbosity > 0
       THEN /\ backup_verbosity' = verbosity
            /\ verbosity' = 0
       ELSE UNCHANGED <<backup_verbosity, verbosity>>
    /\ free_cores' = num_cores
    /\ msg_queue' = <<>>
    /\ printer_stop' = FALSE
    /\ printer_pc' = "while"
    /\ gpc' = "submit"
    /\ UNCHANGED <<cfgvars, molecules_left, p, tasks, results, yielded, exitcode,
                   optimized_molecules, taskvars, printed>>

Attempts == 1 .. max_cycles

\* block.ncores of every task the loops of lines 127-128 submit, in the
\* order of submission: block after block, num_molecules tasks each.
RECURSIVE CoresOfTasks(_)
CoresOfTasks(bs) ==
    IF bs = <<>> THEN <<>>
    ELSE [i \in 1 .. Head(bs).num_molecules |-> Head(bs).ncores] \o CoresOfTasks(Tail(bs))

\* Lines 126-140: executor.submit of single_molecule_generator for every
\* molecule of every block, with molcount = len(tasks) and block.ncores.
Submit ==
    /\ gpc = "submit"
    /\ tasks' = CoresOfTasks(blocks)
    /\ tpc' = [t \in DOMAIN tasks' |-> "submitted"]
    /\ stop_event' = [t \in DOMAIN tasks' |-> FALSE]
    /\ apc' = [t \in DOMAIN tasks' |-> [c \in Attempts |-> "unborn"]]
    /\ iresults' = [t \in DOMAIN tasks' |-> <<>>]
    /\ tresult' = [t \in DOMAIN tasks' |-> None]
    /\ cycles_needed' = [t \in DOMAIN tasks' |-> 0]
    /\ gpc' = "as_completed"
    /\ UNCHANGED <<cfgvars, verbosity, planvars, backup_verbosity, results,
                   yielded, exitcode, optimized_molecules, free_cores, chanvars>>

\* -------------------------------------------------------- ResourceMonitor
\* resources.occupy_cores(n), on entry: waits until n cores are free, then
\* takes them in one step.
CanOccupy(n) == free_cores >= n
OccupyCores(n) == free_cores - n
\* resources.occupy_cores(n), on exit: gives the n cores back.
ReleaseCores(n) == free_cores + n

\* ----------------------------------------------- single_molecule_generator
TaskIds == DOMAIN tasks

Terminal == {"DONE", "FAILED", "SKIPPED"}

\* What single_molecule_step returned: the molecule or None.
AttemptResult(t, c) == IF apc[t][c] = "DONE" THEN Molecule(t, c) ELSE None

\* Lines 193-225: the task gets its cores, announces the molecule (on the
\* message queue when verbosity is 0), creates its stop_event and submits
\* max_cycles attempts.
TaskStart(t) ==
    /\ tpc[t] = "submitted"
    /\ CanOccupy(tasks[t])
    /\ free_cores' = OccupyCores(tasks[t])
    /\ msg_queue' = IF verbosity > 0 THEN msg_queue
                    ELSE Append(msg_queue, <<"Generating", t>>)
    /\ stop_event' = [stop_event EXCEPT ![t] = FALSE]
    /\ apc' = [apc EXCEPT ![t] = [c \in Attempts |-> "start"]]
    /\ tpc' = [tpc EXCEPT ![t] = "as_completed"]
    /\ UNCHANGED <<cfgvars, verbosity, gpc, planvars, genvars, iresults, tresult,
                   cycles_needed, printer_pc, printer_stop, printed>>

\* The orders as_completed(tasks) may yield the attempts in: every order,
\* as a sequence of cycle numbers without repetition.
Orders == {s \in [Attempts -> Attempts] : \A i, j \in Attempts : s[i] = s[j] => i = j}

\* The order of the finished attempts in results.
CompletionOrders == Orders

\* Leaving the scope of occupy_cores, however it is left.
ExitOccupyCores_Leak(t) == free_cores
ExitOccupyCores(t) == ReleaseCores(tasks[t])

\* Line 234 and the end of both with blocks: results holds what the
\* attempts returned, in the order as_completed yields them, once every
\* attempt has finished; the cores go back to the monitor.
\* as_completed(tasks) is exhausted when every attempt has finished.
AllAttemptsFinished_FirstSuccess(t) == \E c \in Attempts : apc[t][c] = "DONE"
AllAttemptsFinished(t) == \A c \in Attempts : apc[t][c] \in Terminal

TaskGather(t) ==
    /\ tpc[t] = "as_completed"
    /\ AllAttemptsFinished(t)
    /\ \E order \in CompletionOrders :
           iresults' = [iresults EXCEPT ![t] = [i \in Attempts |-> AttemptResult(t, order[i])]]
    /\ free_cores' = ExitOccupyCores(t)
    /\ tpc' = [tpc EXCEPT ![t] = "aggregate"]
    /\ UNCHANGED <<cfgvars, verbosity, gpc, planvars, genvars, stop_event, apc,
                   tresult, cycles_needed, chanvars>>

\* for i, result in enumerate(results): if result is not None: ... break
FirstSuccess(rs) ==
    IF \E i \in DOMAIN rs : rs[i] # None
    THEN CHOOSE i \in DOMAIN rs : rs[i] # None /\ \A j \in 1 .. (i - 1) : rs[j] = None
    ELSE 0

\* Lines 239-254. cycles_needed is bound only inside the loop's if: with
\* no success, formatting the message of line 247 or 251 raises
\* UnboundLocalError and the task ends with that exception. Either way the
\* function's locals (tasks, results) are gone afterwards.
TaskReturn(t) ==
    /\ tpc[t] = "aggregate"
    /\ LET i == FirstSuccess(iresults[t]) IN
       IF i = 0
       THEN /\ tpc' = [tpc EXCEPT ![t] = "raised"]
            /\ UNCHANGED <<tresult, cycles_needed, msg_queue>>
       ELSE /\ cycles_needed' = [cycles_needed EXCEPT ![t] = i]
            /\ tresult' = [tresult EXCEPT ![t] = iresults[t][i]]
            /\ msg_queue' = IF verbosity > 0 THEN msg_queue
                            ELSE Append(msg_queue, <<"found", t, i>>)
            /\ tpc' = [tpc EXCEPT ![t] = "returned"]
    /\ iresults' = [iresults EXCEPT ![t] = <<>>]
    /\ apc' = [apc EXCEPT ![t] = [c \in Attempts |-> "over"]]
    /\ UNCHANGED <<cfgvars, verbosity, gpc, planvars, genvars, free_cores,
                   stop_event, printer_pc, printer_stop, printed>>

\* ---------------------------------------------------- single_molecule_step
SetAttempt(t, c, pc) == apc' = [apc EXCEPT ![t][c] = pc]
SetStop_Shared(t) == stop_event' = [u \in DOMAIN stop_event |-> TRUE]
SetStop(t) == stop_event' = [stop_event EXCEPT ![t] = TRUE]

StepFrame == UNCHANGED <<cfgvars, verbosity, gpc, planvars, genvars, free_cores,
                         tpc, iresults, tresult, cycles_needed, chanvars>>

\* Lines 267-268: the entry check.
EntryTarget_NoCheck(t) == "generate"
EntryTarget(t) == IF stop_event[t] THEN "SKIPPED" ELSE "generate"

StepEntry(t, c) ==
    /\ apc[t][c] = "start"
    /\ SetAttempt(t, c, EntryTarget(t))
    /\ UNCHANGED stop_event
    /\ StepFrame

\* Lines 289-301: of the two except clauses of the generation, that of
\* SystemExit calls stop_event.set() before it returns None.
ExceptSetsStop_Never(outcome) == FALSE
ExceptSetsStop_Always(outcome) == TRUE
ExceptSetsStop(outcome) == outcome = "SystemExit"

\* Lines 283-301 with one outcome of generate_random_molecule: it returns
\* a molecule ("ok"), raises SystemExit or raises RuntimeError.
GenerateOutcome(t, c, outcome) ==
    /\ apc[t][c] = "generate"
    /\ SetAttempt(t, c, IF outcome = "ok" THEN "refine" ELSE "FAILED")
    /\ IF outcome # "ok" /\ ExceptSetsStop(outcome)
       THEN SetStop(t) ELSE UNCHANGED stop_event
    /\ StepFrame

StepGenerate(t, c) ==
    \E outcome \in {"ok", "SystemExit", "RuntimeError"} : GenerateOutcome(t, c, outcome)

\* finally: if config.<stage>.debug: stop_event.set(), on every way out of
\* the try statement.
DebugStop_OnSuccess(debug, outcome) == debug /\ outcome = "ok"
DebugStop(debug, outcome) == debug

\* Lines 303-328: iterative_optimization returns or raises RuntimeError;
\* the finally clause sets the stop_event when config.refine.debug.
RefineOutcome(t, c, outcome) ==
    /\ apc[t][c] = "refine"
    /\ SetAttempt(t, c, IF outcome = "RuntimeError" THEN "FAILED"
                        ELSE IF postprocess THEN "postprocess" ELSE "claim")
    /\ IF DebugStop(refine_debug, outcome) THEN SetStop(t) ELSE UNCHANGED stop_event
    /\ StepFrame

StepRefine(t, c) ==
    \E outcome \in {"ok", "RuntimeError"} : RefineOutcome(t, c, outcome)

\* Lines 330-349: postprocess_mol, when config.general.postprocess.
PostprocessOutcome(t, c, outcome) ==
    /\ apc[t][c] = "postprocess"
    /\ SetAttempt(t, c, IF outcome = "RuntimeError" THEN "FAILED" ELSE "claim")
    /\ IF DebugStop(postprocess_debug, outcome) THEN SetStop(t) ELSE UNCHANGED stop_event
    /\ StepFrame

StepPostprocess(t, c) ==
    \E outcome \in {"ok", "RuntimeError"} : PostprocessOutcome(t, c, outcome)

\* Line 351, 354-357: the test of the stop_event; when it is set the
\* attempt returns at once, its molecule in a debug mode and None otherwise.
ClaimTarget_NoDebug(t) == IF ~stop_event[t] THEN "set" ELSE "FAILED"
ClaimTarget(t) ==
    IF ~stop_event[t] THEN "set"
    ELSE IF refine_debug \/ postprocess_debug THEN "DONE"
    ELSE "FAILED"

StepClaimCheck(t, c) ==
    /\ apc[t][c] = "claim"
    /\ SetAttempt(t, c, ClaimTarget(t))
    /\ UNCHANGED stop_event
    /\ StepFrame

\* Lines 352-353: stop_event.set() and the return of the molecule.
StepClaimSet(t, c) ==
    /\ apc[t][c] = "set"
    /\ SetStop(t)
    /\ SetAttempt(t, c, "DONE")
    /\ StepFrame

\* ------------------------------------------------- generator, the results
\* Line 143: as_completed hands over a finished task that it has not
\* handed over yet, and task.result() returns its result or raises its
\* exception, which leaves generator.
GeneratorCollect ==
    /\ gpc = "as_completed"
    /\ \E t \in TaskIds \ yielded :
           /\ tpc[t] \in {"returned", "raised"}
           /\ yielded' = yielded \cup {t}
           /\ IF tpc[t] = "raised"
              THEN gpc' = "raised" /\ UNCHANGED results
              ELSE gpc' = gpc /\ results' = Append(results, tresult[t])
    /\ UNCHANGED <<cfgvars, verbosity, planvars, backup_verbosity, tasks, exitcode,
                   optimized_molecules, free_cores, taskvars, chanvars>>

RECURSIVE NotNone(_)
NotNone(rs) ==
    IF rs = <<>> THEN <<>>
    ELSE IF Head(rs) = None THEN NotNone(Tail(rs))
    ELSE <<Head(rs)>> \o NotNone(Tail(rs))

\* Lines 143-176, once every task has been handed over: the verbosity is
\* restored, a None among the results makes the exit code 1, the molecules
\* are returned.
GeneratorReturn ==
    /\ gpc = "as_completed"
    /\ yielded = TaskIds
    /\ verbosity' = IF backup_verbosity # NoBackup THEN backup_verbosity ELSE verbosity
    /\ exitcode' = IF \E i \in DOMAIN results : results[i] = None THEN 1 ELSE exitcode
    /\ optimized_molecules' = NotNone(results)
    /\ gpc' = "done"
    /\ UNCHANGED <<cfgvars, planvars, backup_verbosity, tasks, results, yielded,
                   free_cores, taskvars, chanvars>>

\* ---------------------------------------------------------- printer_thread
\* Lines 35-40, one iteration of the loop: the condition, then get with
\* its timeout; a message is printed, Empty is passed over.
PrinterContinues_And == ~printer_stop /\ msg_queue # <<>>
PrinterContinues == ~printer_stop \/ msg_queue # <<>>

PrinterLoop ==
    /\ printer_pc = "while"
    /\ IF PrinterContinues
       THEN /\ IF msg_queue # <<>>
               THEN /\ printed' = Head(msg_queue)
                    /\ msg_queue' = Tail(msg_queue)
               ELSE UNCHANGED <<printed, msg_queue>>
            /\ printer_pc' = "while"
       ELSE /\ printer_pc' = "exit"
            /\ UNCHANGED <<printed, msg_queue>>
    /\ UNCHANGED <<cfgvars, verbosity, gpc, planvars, genvars, free_cores,
                   taskvars, printer_stop>>

\* ------------------------------------------------------------------ specs
InitCommon ==
    /\ gpc = "setup_blocks"
    /\ blocks = <<>>
    /\ molecules_left = 0
    /\ p = 0
    /\ backup_verbosity = NoBackup
    /\ tasks = <<>>
    /\ results = <<>>
    /\ yielded = {}
    /\ exitcode = 0
    /\ optimized_molecules = <<>>
    /\ free_cores = 0
    /\ tpc = <<>>
    /\ stop_event = <<>>
    /\ apc = <<>>
    /\ iresults = <<>>
    /\ tresult = <<>>
    /\ cycles_needed = <<>>
    /\ msg_queue = <<>>
    /\ printer_pc = "unborn"
    /\ printer_stop = FALSE
    /\ printed = <<>>

InitPlan ==
    /\ num_cores \in 1 .. PlanMaxCores
    /\ num_molecules \in 0 .. PlanMaxMolecules
    /\ mincores \in 1 .. PlanMaxMinCores
    /\ max_cycles = 1
    /\ postprocess = FALSE
    /\ refine_debug = FALSE
    /\ postprocess_debug = FALSE
    /\ verbosity \in 0 .. 1
    /\ InitCommon

NextPlan ==
    \/ SetupBlocksFirst
    \/ SetupBlocksLoop
    \/ SetupBlocksReturn
    \/ GeneratorSetup
    \/ Submit

PlanSpec == InitPlan /\ [][NextPlan]_vars

Init ==
    /\ num_cores \in 1 .. MaxCores
    /\ num_molecules \in 0 .. MaxMolecules
    /\ mincores \in 1 .. MaxMinCores
    /\ max_cycles \in 1 .. MaxCycles
    /\ num_molecules * max_cycles <= MaxAttempts
    /\ postprocess \in BOOLEAN
    /\ refine_debug \in BOOLEAN
    /\ postprocess_debug \in BOOLEAN
    /\ verbosity \in 0 .. 1
    /\ InitCommon

\* One step of attempt c of task t.
AttemptStep(t, c) ==
    \/ StepEntry(t, c)
    \/ StepGenerate(t, c)
    \/ StepRefine(t, c)
    \/ StepPostprocess(t, c)
    \/ StepClaimCheck(t, c)
    \/ StepClaimSet(t, c)

Next ==
    \/ NextPlan
    \/ \E t \in TaskIds : TaskStart(t)
    \/ \E t \in TaskIds : TaskGather(t)
    \/ \E t \in TaskIds : TaskReturn(t)
    \/ \E t \in TaskIds, c \in Attempts : StepEntry(t, c)
    \/ \E t \in TaskIds, c \in Attempts : StepGenerate(t, c)
    \/ \E t \in TaskIds, c \in Attempts : StepRefine(t, c)
    \/ \E t \in TaskIds, c \in Attempts : StepPostprocess(t, c)
    \/ \E t \in TaskIds, c \in Attempts : StepClaimCheck(t, c)
    \/ \E t \in TaskIds, c \in Attempts : StepClaimSet(t, c)
    \/ GeneratorCollect
    \/ GeneratorReturn
    \/ PrinterLoop

Spec == Init /\ [][Next]_vars

\* The main thread, which runs setup_blocks and generator, goes on while it
\* can.
GeneratorStep == NextPlan \/ GeneratorCollect \/ GeneratorReturn

\* Every worker process that can take a step takes one in the end, every
\* attempt terminates, and a task that can get its cores again and again
\* gets them in the end.
WorkerFairness ==
    \A t \in 1 .. MaxMolecules :
        /\ SF_vars(t \in TaskIds /\ TaskStart(t))
        /\ WF_vars(t \in TaskIds /\ (TaskGather(t) \/ TaskReturn(t)))
        /\ \A c \in 1 .. MaxCycles :
               WF_vars(t \in TaskIds /\ c \in Attempts /\ AttemptStep(t, c))

\* So do the main thread and the printer thread.
Fairness ==
    /\ WorkerFairness
    /\ WF_vars(GeneratorStep)
    /\ WF_vars(PrinterLoop)

\* The planning runs with a setup_blocks that goes on while it can.
SetupBlocksStep == SetupBlocksFirst \/ SetupBlocksLoop \/ SetupBlocksReturn
FairPlanSpec == PlanSpec /\ WF_vars(SetupBlocksStep)

FairSpec == Spec /\ Fairness

\* ================================================================= claims
Finished(t) == tpc[t] \in {"returned", "raised"}
NoDebug == ~refine_debug /\ ~postprocess_debug
PlanReturned == gpc \in {"sort", "submit", "as_completed", "done", "raised"}
ManagersOpen == gpc \in {"submit", "as_completed", "done", "raised"}
Min(S) == CHOOSE x \in S : \A y \in S : x <= y

\* C1: with both debug flags off, at most one attempt of a task returns a
\* molecule (reaches DONE), whatever the interleaving of its attempts.
C1_AtMostOneDone ==
    NoDebug => \A t \in TaskIds : Cardinality({c \in Attempts : apc[t][c] = "DONE"}) <= 1

\* C2: when every attempt of a task ended without a molecule,
\* single_molecule_generator returns None and does not raise.
C2_AllFailedReturnsNone ==
    [][\A t \in DOMAIN tpc :
         (/\ tpc[t] = "aggregate"
          /\ tpc'[t] # "aggregate"
          /\ \A i \in DOMAIN iresults[t] : iresults[t][i] = None)
         => (tpc'[t] = "returned" /\ tresult'[t] = None)]_vars

\* C3: a molecule that failed all its cycles does not end the run:
\* generator does not raise, returns every molecule the other tasks
\* produced, and its exit code is 1 when a molecule failed all cycles and 0
\* when every molecule was produced.
C3_FailedMoleculeNotFatal ==
    LET Failed(t) == Finished(t) /\ tresult[t] = None IN
    /\ gpc # "raised"
    /\ gpc = "done" =>
           /\ exitcode = (IF \E t \in TaskIds : Failed(t) THEN 1 ELSE 0)
           /\ \A t \in TaskIds : ~Failed(t) =>
                  \E i \in DOMAIN optimized_molecules : optimized_molecules[i] = tresult[t]

\* C4: when generator has all results, results[i] is what the i-th
\* submitted task returned.
C4_ResultsInSubmissionOrder ==
    gpc = "done" => \A i \in DOMAIN results : results[i] = tresult[i]

\* C5: the molecule a task returns is that of its lowest successful cycle
\* and cycles_needed is that cycle's number, counted from 1.
C5_LowestSuccessfulCycle ==
    [][\A t \in DOMAIN tpc :
         (tpc[t] = "aggregate" /\ tpc'[t] = "returned")
         => LET first == Min({c \in Attempts : apc[t][c] = "DONE"}) IN
            /\ tresult'[t] = Molecule(t, first)
            /\ cycles_needed'[t] = first]_vars

\* C6: the num_molecules of the blocks setup_blocks returns sum to the
\* number of molecules asked for, and generator submits that many tasks.
C6_BlocksSumToMolecules ==
    /\ gpc = "while" => SumMolecules(blocks) + molecules_left = num_molecules
    /\ PlanReturned => SumMolecules(blocks) = num_molecules
    /\ gpc \in {"as_completed", "done", "raised"} => Len(tasks) = num_molecules

C6_Witness ==
    /\ gpc = "as_completed"
    /\ num_molecules >= 3
    /\ Len(tasks) = num_molecules
    /\ Len(blocks) >= 3
    /\ blocks[1].ncores < blocks[Len(blocks)].ncores

\* C7 as stated: every block has num_molecules * ncores <= the cores of
\* the run.
C7_BlockWithinBudget ==
    \A i \in DOMAIN blocks : blocks[i].num_molecules * blocks[i].ncores <= num_cores

\* C7 as amended: every block has between 1 and num_cores cores, and the p
\* blocks one step of setup_blocks emits together have p * ncores <=
\* num_cores.
C7_StepWithinBudget ==
    /\ \A i \in DOMAIN blocks : blocks[i].ncores \in 1 .. num_cores
    /\ (gpc = "while" /\ p > 0) =>
           \A i \in (Len(blocks) - p + 1) .. Len(blocks) : p * blocks[i].ncores <= num_cores

C7_Witness ==
    /\ gpc = "while"
    /\ p >= 2
    /\ \E i \in DOMAIN blocks : blocks[i].num_molecules * blocks[i].ncores > num_cores

\* C8: the free cores of the outer monitor are num_cores minus the cores
\* of the tasks inside their occupy_cores scope, never negative and never
\* more than num_cores, and num_cores again once every task has finished.
RECURSIVE HeldCores(_)
HeldCores(ts) ==
    IF ts = {} THEN 0
    ELSE LET t == CHOOSE x \in ts : TRUE IN
         (IF tpc[t] = "as_completed" THEN tasks[t] ELSE 0) + HeldCores(ts \ {t})

C8_CoreAccounting ==
    ManagersOpen =>
        /\ free_cores = num_cores - HeldCores(TaskIds)
        /\ free_cores \in 0 .. num_cores
        /\ (\A t \in TaskIds : Finished(t)) => free_cores = num_cores

C8_Witness ==
    /\ Len(tasks) >= 2
    /\ \A t \in TaskIds : Finished(t)
    /\ \E t \in TaskIds : tpc[t] = "raised"
    /\ \E t \in TaskIds : tpc[t] = "returned"
    /\ free_cores = num_cores

\* C9: no task asks for more cores than the monitor has, and under
\* Fairness every submitted task gets its cores and finishes.
C9_EveryTaskFinishes ==
    /\ [](\A t \in TaskIds : tasks[t] <= num_cores)
    /\ \A t \in 1 .. MaxMolecules :
           (t \in TaskIds /\ tpc[t] = "submitted") ~> (t \in TaskIds /\ Finished(t))

C9_Witness ==
    /\ Len(tasks) >= 2
    /\ \A t \in TaskIds : tasks[t] = num_cores /\ Finished(t)

\* C10: a stop_event that is set stays set, and an attempt whose entry
\* check runs with the stop_event set goes to SKIPPED at once, past
\* generation, refinement and postprocessing, and returns None.
C10_SetStaysSetAndSkips ==
    [][\A t \in DOMAIN stop_event :
         /\ stop_event[t] => stop_event'[t]
         /\ \A c \in Attempts :
                (apc[t][c] = "start" /\ stop_event[t] /\ apc'[t][c] # "start")
                => (apc'[t][c] = "SKIPPED" /\ AttemptResult(t, c)' = None)]_vars

C10_Witness ==
    \E t \in TaskIds : \E c, d \in Attempts :
        /\ stop_event[t]
        /\ apc[t][c] = "SKIPPED"
        /\ apc[t][d] = "DONE"

\* The positions of an attempt that has got through refinement, and
\* through postprocessing, and has not returned yet.
PastRefine == {"postprocess", "claim", "set"}
PastPostprocess == {"claim", "set"}

\* The stop_event of the task is set once an attempt of it has got through
\* a stage whose debug flag is on.
DebugStageSetsStop ==
    \A t \in DOMAIN apc : \A c \in Attempts :
        /\ (refine_debug /\ apc[t][c] \in PastRefine \cup {"DONE"}) => stop_event[t]
        /\ (postprocess_debug /\ postprocess /\ apc[t][c] \in PastPostprocess \cup {"DONE"})
               => stop_event[t]

\* C11 as stated: in a debug mode every attempt that has got through the
\* stage under debug (refinement with refine.debug, postprocessing with
\* postprocess.debug) returns its molecule, never None, also when the
\* stop_event is set already; and the stop_event is set from the moment
\* the first attempt has got through that stage.
C11_DebugStageReturnsMolecule ==
    /\ []DebugStageSetsStop
    /\ [][\A t \in DOMAIN apc : \A c \in Attempts :
             /\ (refine_debug /\ apc[t][c] \in PastRefine) => apc'[t][c] # "FAILED"
             /\ (postprocess_debug /\ postprocess /\ apc[t][c] \in PastPostprocess)
                    => apc'[t][c] # "FAILED"]_vars

\* C11 as amended: in a debug mode every attempt that has got through all
\* its stages (refinement, and postprocessing when it is enabled) returns
\* its molecule, never None, also when the stop_event is set already; and
\* the stop_event is set from the moment the first attempt has got through
\* the stage under debug.
C11_DebugPipelineReturnsMolecule ==
    /\ []DebugStageSetsStop
    /\ [][\A t \in DOMAIN apc : \A c \in Attempts :
             ((refine_debug \/ postprocess_debug) /\ apc[t][c] \in PastPostprocess)
             => apc'[t][c] \in PastPostprocess \cup {"DONE"}]_vars

C11_Witness ==
    /\ refine_debug \/ postprocess_debug
    /\ max_cycles = 2
    /\ \E t \in TaskIds : stop_event[t] /\ \A c \in Attempts : apc[t][c] = "DONE"

\* setup_blocks(8, 3) with MINCORES_PLACEHOLDER = 4 has returned.
Scenario834 ==
    /\ num_cores = 8
    /\ num_molecules = 3
    /\ mincores = 4
    /\ PlanReturned

\* C12 as stated: setup_blocks(8, 3) with a minimum of 4 cores returns two
\* blocks, the first for two slots of 4 cores, Block(2, 4), the last for
\* one slot of 8 cores, Block(1, 8).
C12_TwoBlocks ==
    Scenario834 => blocks = <<Block(2, 4), Block(1, 8)>>

\* C12 as amended: it returns three blocks of one molecule each, two of 4
\* cores and then one of 8 cores, and generator submits three tasks with
\* 4, 4 and 8 cores.
C12_ThreeBlocks ==
    Scenario834 =>
        /\ blocks = <<Block(1, 4), Block(1, 4), Block(1, 8)>>
        /\ gpc \in {"as_completed", "done", "raised"} => tasks = <<4, 4, 8>>

C12_Witness ==
    /\ Scenario834
    /\ gpc = "as_completed"
    /\ Len(blocks) = 3
    /\ tasks = <<4, 4, 8>>

\* C13: when no molecule is asked for, setup_blocks returns an empty
\* list, generator submits no task and does not raise, and generator
\* returns in the end, with exit code 0 and an empty list of molecules.
C13_ZeroMolecules ==
    /\ [](num_molecules = 0 =>
             /\ gpc \notin {"ValueError", "raised"}
             /\ PlanReturned => blocks = <<>>
             /\ tasks = <<>>
             /\ gpc = "done" => (exitcode = 0 /\ optimized_molecules = <<>>))
    /\ (num_molecules = 0) ~> (gpc = "done" /\ exitcode = 0 /\ optimized_molecules = <<>>)

C13_Witness ==
    /\ num_molecules = 0
    /\ gpc = "done"
    /\ blocks = <<>>
    /\ tasks = <<>>
    /\ yielded = {}
    /\ exitcode = 0
    /\ optimized_molecules = <<>>

\* What a step may do to the queue and to the printer.
PrinterDiscipline ==
    /\ (printer_pc = "while" /\ printer_pc' = "exit") => (printer_stop /\ msg_queue = <<>>)
    /\ (msg_queue' # msg_queue) =>
           \/ /\ Len(msg_queue') = Len(msg_queue) + 1
              /\ SubSeq(msg_queue', 1, Len(msg_queue)) = msg_queue
              /\ printed' = printed
           \/ /\ printer_pc = "while"
              /\ msg_queue # <<>>
              /\ msg_queue' = Tail(msg_queue)
              /\ printed' = Head(msg_queue)
    /\ (printed' # printed) => (msg_queue' # msg_queue)

AbortConfined(t, c) ==
    /\ stop_event'[t]
    /\ apc'[t][c] = "FAILED"
    /\ AttemptResult(t, c)' = None
    /\ \A d \in Attempts \ {c} : apc'[t][d] = apc[t][d]
    /\ tpc' = tpc
    /\ gpc' = gpc

\* C15: when generate_random_molecule raises SystemExit in an attempt, the
\* attempt sets the stop_event of its task and returns None, the task and
\* generator go on as before, and an attempt of the task whose entry check
\* runs from then on is skipped.
C15_AbortSetsStop ==
    [][\A t \in DOMAIN apc : \A c \in Attempts :
          /\ GenerateOutcome(t, c, "SystemExit") => AbortConfined(t, c)
          /\ (stop_event[t] /\ apc[t][c] = "start" /\ apc'[t][c] # "start")
                 => (apc'[t][c] = "SKIPPED")]_vars

C15_Witness ==
    /\ NoDebug
    /\ \E t \in TaskIds : \E c, d \in Attempts :
           /\ stop_event[t]
           /\ apc[t][c] = "FAILED"
           /\ apc[t][d] = "SKIPPED"

\* A stage of attempt c of task t raises RuntimeError.
RaisesRuntimeError(t, c) ==
    \/ GenerateOutcome(t, c, "RuntimeError")
    \/ RefineOutcome(t, c, "RuntimeError")
    \/ PostprocessOutcome(t, c, "RuntimeError")

C17_DebugStageEndSetsStop ==
    /\ []DebugStageSetsStop
    /\ [][\A t \in DOMAIN apc : \A c \in Attempts :
             /\ (refine_debug /\ apc[t][c] = "refine" /\ apc'[t][c] # "refine")
                    => stop_event'[t]
             /\ (postprocess_debug /\ apc[t][c] = "postprocess" /\ apc'[t][c] # "postprocess")
                    => stop_event'[t]]_vars

C17_Witness ==
    /\ postprocess_debug
    /\ ~refine_debug
    /\ postprocess
    /\ max_cycles = 1
    /\ \E t \in TaskIds : apc[t][1] = "claim" /\ stop_event[t]

Ascending(cores) == \A i, j \in DOMAIN cores : i < j => cores[i] <= cores[j]

\* C18: generator sorts the blocks by ncores and submits the tasks block
\* after block, so a task submitted earlier has no more cores than a task
\* submitted later.
C18_TasksAscending ==
    /\ ManagersOpen => Ascending([i \in DOMAIN blocks |-> blocks[i].ncores])
    /\ Ascending(tasks)

C18_Witness ==
    /\ gpc = "as_completed"
    /\ Cardinality({tasks[i] : i \in DOMAIN tasks}) >= 3
    /\ Ascending(tasks)

\* One step of setup_blocks.
SetupBlocksDiscipline ==
    /\ (gpc = "while" /\ gpc' = "while") =>
           (molecules_left' < molecules_left /\ molecules_left' >= 0)
    /\ (gpc = "while" /\ gpc' = "sort") => (molecules_left = 0 /\ blocks' = blocks)

\* C19: setup_blocks does not raise: while molecules are left, the list
\* max() is taken of is not empty; every iteration of the loop leaves fewer
\* molecules than it found, and never fewer than 0; the loop is left when
\* none is left, and setup_blocks returns in the end.
C19_SetupBlocksTerminates ==
    /\ [](gpc # "ValueError")
    /\ []((gpc = "while" /\ molecules_left >= minprocs) => Candidates(molecules_left) # {})
    /\ [][SetupBlocksDiscipline]_vars
    /\ (gpc = "setup_blocks") ~> PlanReturned

C19_Witness ==
    /\ gpc = "sort"
    /\ molecules_left = 0
    /\ num_molecules < maxprocs
    /\ Cardinality({blocks[i].ncores : i \in DOMAIN blocks}) >= 3

\* The positions of an attempt that has not got to the end of the
\* generation, or that was skipped.
BeforeStages == {"unborn", "start", "generate", "SKIPPED"}

\* C20: a step of one task changes neither the stop_event nor an attempt
\* of another task; the stop_event of a task is set only when an attempt
\* of that very task has set it; and an attempt is skipped only with the
\* stop_event of its own task set.
C20_StopEventsIsolated ==
    /\ [](\A t \in DOMAIN stop_event :
             stop_event[t] => \E c \in Attempts : apc[t][c] \notin BeforeStages)
    /\ [][\A t, u \in DOMAIN stop_event :
             /\ (t # u /\ (apc'[t] # apc[t] \/ tpc'[t] # tpc[t]))
                    => (stop_event'[u] = stop_event[u] /\ apc'[u] = apc[u])
             /\ \A c \in Attempts :
                    (apc[t][c] # "SKIPPED" /\ apc'[t][c] = "SKIPPED") => stop_event[t]]_vars

C20_Witness ==
    /\ num_cores = 1
    /\ \E t, u \in TaskIds :
           /\ t # u
           /\ tpc[t] = "returned"
           /\ stop_event[t]
           /\ ~stop_event[u]
           /\ apc[u][1] = "claim"

\* Every task has finished and generator has them all, or is about to.
AllTasksFinished ==
    /\ gpc \in {"as_completed", "done"}
    /\ \A t \in TaskIds : Finished(t)

\* C21: once every task has finished, generator sets the printer's
\* stop_event in the end, and the printer leaves its loop with the queue
\* empty.
C21_PrinterStops ==
    AllTasksFinished ~> (printer_stop /\ printer_pc = "exit" /\ msg_queue = <<>>)

\* The positions of an attempt that is running.
Running == {"start", "generate", "refine", "postprocess", "claim", "set"}

\* C22: a task submits max_cycles attempts, no more and no fewer; while
\* one of them is running the task is inside as_completed and holds its
\* cores, also when another attempt has returned a molecule already; and
\* past as_completed every attempt has finished.
C22_WaitsForAllAttempts ==
    \A t \in TaskIds :
        /\ DOMAIN apc[t] = 1 .. max_cycles
        /\ tpc[t] = "submitted" => \A c \in Attempts : apc[t][c] = "unborn"
        /\ tpc[t] = "as_completed" => \A c \in Attempts : apc[t][c] \in Running \cup Terminal
        /\ (\E c \in Attempts : apc[t][c] \in Running) =>
               /\ tpc[t] = "as_completed"
               /\ free_cores <= num_cores - tasks[t]
        /\ tpc[t] = "aggregate" => \A c \in Attempts : apc[t][c] \in Terminal
        /\ Finished(t) => \A c \in Attempts : apc[t][c] = "over"

C22_Witness ==
    /\ max_cycles = 2
    /\ \E t \in TaskIds : \E c, d \in Attempts :
           /\ tpc[t] = "as_completed"
           /\ apc[t][c] = "DONE"
           /\ apc[t][d] \in {"generate", "refine", "postprocess"}
           /\ free_cores = num_cores - tasks[t]

=============================================================================
